---- MODULE Spec2Model ----
(***************************************************************************)
(* A model of the notebooks of annemariet/tutorials.                       *)
(*                                                                         *)
(* 03_ML_and_dataviz.ipynb is modelled as the run of its 60 code cells in  *)
(* file order in one kernel: a cell that raises stops there, keeps what it *)
(* bound so far, and the run goes on with the next cell (the way a         *)
(* student runs the cells one after the other).  Third-party library calls *)
(* are taken to succeed; what they return is drawn from small sets.        *)
(*                                                                         *)
(* HashingTrick.ipynb defines two feature maps; they are operators here,   *)
(* applied to inputs drawn from bounded sets.                              *)
(***************************************************************************)
EXTENDS Integers, Sequences, FiniteSets, TLC

VARIABLES
    pc,             \* index of the next code cell to run, 1 .. NCells + 1
    defined,        \* names bound in the kernel's namespace
    exc,            \* exc[c]: exception that left cell c ("none" if none)
    raised,         \* every exception raised so far: [cell, line, exc]
    swallowed,      \* those a handler caught and discarded
    inColab,        \* environment: the kernel is a Colab kernel
    fileExists,     \* environment: convnet.h5 exists on disk
    clock,          \* what time() returns now
    t0,             \* notebook variable t0 (-1: unbound)
    shown,          \* title data of the plot_digits_embedding of the last cell
    calls,          \* plot_interactive_embedding calls made by the last cell
    X_vis, y_vis,   \* which samples the notebook variable holds
    X_tsne, X_umap, \* which samples the embedding was computed from
    y_test,         \* labels of the test samples
    y_proba,        \* model_fc.predict(X_new): (argmax, max) of each row
    y_proba_test,   \* model_fc.predict(X_test): (argmax, max) of each row
    y_pred,         \* predicted class of each sample
    mistakes,       \* np.squeeze(np.argwhere(y_pred != y_test))
    worst_mistakes, \* np.argsort(...)[:n_test]
    trained,        \* notebook variable trained: "unset", "True", "False"
    cnn,            \* what the CNN cells did: [loads, compiles, fits, saves]
    rescaleIn,      \* the X2d given to plot_digits_embedding
    rescaleOut,     \* the X it plots
    hashIn,         \* x, x', h and xi given to Weinberger's feature map
    hashOut,        \* phi(x), phi(x'), phi(x + x')
    kernelIn,       \* x and x' whose hash kernel is averaged
    kernelOut,      \* the sum of <phi(x), phi(x')> over every h and xi
    chapIn,         \* the hashed categories given to Chapelle's feature map
    chapOut         \* phi(x)

nbVars == << pc, defined, exc, raised, swallowed, inColab, fileExists,
             clock, t0,
             shown, calls, X_vis, y_vis, X_tsne, X_umap, y_test, y_proba,
             y_proba_test, y_pred, mistakes, worst_mistakes, trained,
             cnn >>

fnVars == << rescaleIn, rescaleOut, hashIn, hashOut, kernelIn, kernelOut,
             chapIn, chapOut >>

vars == << nbVars, fnVars >>

----------------------------------------------------------------------------
(* Bounds of the model.                                                    *)

\* number of test samples (10000 in Fashion-MNIST)
NTest == 3
\* time() never exceeds this
MaxClock == 1
\* the runs of the pair of CNN cells (cells 57 and 58)
MaxRuns == 2
\* plot_digits_embedding: at most this many points, coordinates up to this
MaxPts == 2
MaxCoord == 1
\* Weinberger's map: input dimension, hashed dimension m, largest x_j
Dim == 2
NBuckets == 2
MaxVal == 1
\* the hash kernel: input dimension, hashed dimension m, largest x_j
KDim == 2
KBuckets == 2
KMaxVal == 2
\* Chapelle's map: features F, categories c_f of a feature, hash values
MaxFeat == 2
MaxCats == 2
MaxHash == 3

(* Program constants.                                                      *)

\* number of code cells of 03_ML_and_dataviz.ipynb
NCells == 60
\* n_test = 10
n_test == 10

\* class labels y takes (10 classes in the data; two are enough to be wrong)
Classes == {0, 1}
\* levels of the largest predicted class probability of a row
Probs == {6, 9}

Samples == 0 .. NTest - 1

Min(a, b) == IF a < b THEN a ELSE b

----------------------------------------------------------------------------
(* The code cells: the names a cell reads before binding them itself, and  *)
(* the names it binds.  A function's free global names are read when it is *)
(* called, so they are listed with the calling cell.                       *)

FreeOfPlotDigitsEmbedding == {"np", "plt"}
FreeOfPlotInteractiveEmbedding ==
    {"ColumnDataSource", "HoverTool", "figure", "mpl", "np",
     "im_reshape_bw", "im_colorize_rgba"}

CellReads(c) ==
    CASE c = 2  -> {"fetch_openml", "np"}
      [] c = 3  -> {"X", "y"}
      [] c = 4  -> {"plt", "X_vis", "w", "h", "y_vis"}
      [] c = 9  -> {"time", "random_projection", "X_vis", "y_vis",
                    "plot_digits_embedding"} \cup FreeOfPlotDigitsEmbedding
      [] c = 10 -> {"time", "decomposition", "X_vis", "y_vis",
                    "plot_digits_embedding"} \cup FreeOfPlotDigitsEmbedding
      [] c = 14 -> {"manifold", "time", "X", "n_vis_samples", "y_vis",
                    "plot_digits_embedding"} \cup FreeOfPlotDigitsEmbedding
      [] c = 15 -> {"manifold", "time", "X_vis", "y_vis",
                    "plot_digits_embedding"} \cup FreeOfPlotDigitsEmbedding
      [] c = 17 -> {"X_vis", "y_vis", "t0", "time",
                    "plot_digits_embedding"} \cup FreeOfPlotDigitsEmbedding
      [] c = 21 -> {"X_tsne", "X_vis", "y_vis", "plot_interactive_embedding"}
                    \cup FreeOfPlotInteractiveEmbedding
      [] c = 22 -> {"fig_tsne", "show"}
      [] c = 23 -> {"X_umap", "X_vis", "y_vis", "show",
                    "plot_interactive_embedding"}
                    \cup FreeOfPlotInteractiveEmbedding
      [] c = 25 -> {"tf"}
      [] c = 26 -> {"keras"}
      [] c = 27 -> {"X_train_full"}
      [] c = 28 -> {"X_train_full", "y_train_full", "X_test"}
      [] c = 30 -> {"X_train", "class_names", "plot_image", "y_train"}
      [] c = 31 -> {"plt", "X_train", "class_names", "plot_image", "y_train"}
      [] c = 32 -> {"X_test", "y_test"}
      [] c = 34 -> {"keras"}
      [] c = 35 -> {"keras", "np", "tf"}
      [] c = 36 -> {"keras", "model_fc"}
      [] c = 37 -> {"model_fc"}
      [] c = 38 -> {"X_tsne", "X_vis", "y_vis", "show",
                    "plot_interactive_embedding"}
                    \cup FreeOfPlotInteractiveEmbedding
      [] c = 39 -> {"X_train", "X_valid", "model_fc", "y_train", "y_valid"}
      [] c = 40 -> {"model_fc"}
      [] c = 41 -> {"plt", "layer_weights"}
      [] c = 42 -> {"X_tsne", "X_vis", "y_vis", "plot_interactive_embedding"}
                    \cup FreeOfPlotInteractiveEmbedding
      [] c = 43 -> {"fig_tsne_fc1", "show"}
      [] c = 44 -> {"fig_tsne_fc2", "show"}
      [] c = 46 -> {"X_test", "model_fc"}
      [] c = 47 -> {"plt"}
      [] c = 48 -> {"X_test", "model_fc"}
      [] c = 49 -> {"plt"}
      [] c = 51 -> {"X_test", "model_fc", "np", "y_pred", "y_test", "n_test"}
      [] c = 52 -> {"mistakes", "y_pred", "y_test"}
      [] c = 53 -> {"worst_mistakes", "y_pred", "y_test"}
      [] c = 54 -> {"plt"}
      [] c = 56 -> {"X_train", "X_valid", "X_test", "np"}
      [] c = 57 -> {"keras"}
      [] c = 58 -> {"trained", "model", "X_test_c", "y_test"}
      [] OTHER  -> {}

CellWrites(c) ==
    CASE c = 1  -> {"fetch_openml", "random_projection", "decomposition",
                    "manifold", "np", "time", "plt", "offsetbox"}
      [] c = 2  -> {"X", "y"}
      [] c = 3  -> {"n_vis_samples", "w", "h", "X_vis", "y_vis"}
      [] c = 4  -> {"ax"}
      [] c = 5  -> {"plot_image"}
      [] c = 8  -> {"plot_digits_embedding"}
      [] c = 9  -> {"t0", "rp", "X_projected"}
      [] c = 10 -> {"t0", "pca", "X_pca"}
      [] c = 14 -> {"clf", "t0", "X_mds"}
      [] c = 15 -> {"tsne", "t0", "X_tsne"}
      [] c = 17 -> {"umap", "um", "X_umap"}
      [] c = 19 -> {"bokeh", "ColumnDataSource", "HoverTool", "mpl",
                    "figure", "show", "output_notebook"}
      [] c = 20 -> {"im_colorize_rgba", "im_reshape_bw",
                    "plot_interactive_embedding"}
      [] c = 21 -> {"fig_tsne"}
      [] c = 23 -> {"fig_umap"}
      [] c = 24 -> {"tf", "keras"}
      [] c = 26 -> {"fashion_mnist", "X_train_full", "y_train_full",
                    "X_test", "y_test"}
      [] c = 28 -> {"X_valid", "X_train", "y_valid", "y_train", "X_test"}
      [] c = 29 -> {"class_names"}
      [] c = 31 -> {"n_rows", "n_cols", "row", "col", "index", "ax"}
      [] c = 32 -> {"n_vis_samples", "X_vis", "y_vis", "X_in"}
      [] c = 34 -> {"model_fc"}
      [] c = 38 -> {"fig_tsne_fc2_rand"}
      [] c = 39 -> {"history"}
      [] c = 40 -> {"layer_weights"}
      [] c = 41 -> {"fig", "axes", "vmin", "vmax", "coef", "ax"}
      [] c = 42 -> {"layer_to_plot", "fig_tsne_fc1", "fig_tsne_fc2"}
      [] c = 45 -> {"pd", "sns"}
      [] c = 46 -> {"n_test", "X_new", "y_proba", "y_pred"}
      [] c = 48 -> {"y_proba_test", "y_pred"}
      [] c = 49 -> {"ax"}
      [] c = 51 -> {"y_proba_test", "mistakes", "worst_mistakes"}
      [] c = 56 -> {"X_mean", "X_std", "X_train_c", "X_valid_c", "X_test_c"}
      [] c = 57 -> {"partial", "os", "convmodel_file", "model", "trained"}
      [] c = 58 -> {"score", "X_new", "y_pred"}
      [] OTHER  -> {}

\* the cells whose effect on the modelled state is only to bind names
PlainCells ==
    (1 .. NCells) \ {3, 9, 10, 14, 15, 17, 21, 23, 24, 26, 30, 31, 32, 38,
                     42, 46, 48, 51, 52, 57, 58}

----------------------------------------------------------------------------
(* Values.                                                                 *)

\* a notebook variable that holds no modelled value yet
Unbound == << >>
\* X[:n_vis_samples], y[:n_vis_samples] of mnist_784
Mnist == "mnist_784[:1000]"
\* X_test[:n_vis_samples], y_test[:n_vis_samples] of Fashion-MNIST
Fashion == "fashion_mnist.test[:1000]"
NoPlot == [cell |-> 0, reported |-> 0, took |-> 0]
\* a row of model_fc.predict: its argmax and its max
Out == [cls : Classes, p : Probs]

envVars == << inColab, fileExists >>
timeVars == << clock, t0 >>
provVars == << X_vis, y_vis, X_tsne, X_umap >>
dataVars == << y_test, y_proba, y_proba_test, y_pred, mistakes,
               worst_mistakes >>
cnnVars == << trained, cnn >>

----------------------------------------------------------------------------
(* Exceptions.  The only try statement of the notebooks is in the          *)
(* tensorflow import cell: its body is the %tensorflow_version line.       *)

\* a second try statement, around the first plot_image call
HandlersAroundPlotImage ==
    {[cell |-> 24, first |-> 647, last |-> 649],
     [cell |-> 30, first |-> 726, last |-> 726]}

Handlers == {[cell |-> 24, first |-> 647, last |-> 649]}

\* except Exception: every exception modelled here is an Exception
Caught(line) == \E hd \in Handlers : hd.first <= line /\ line <= hd.last

\* what leaves the cell when e is raised at `line`
Leaves(line, e) == IF Caught(line) THEN "none" ELSE e

Swallow(c, line, e) ==
    IF Caught(line) THEN {[cell |-> c, line |-> line, exc |-> e]} ELSE {}

\* cell c ends: e left it ("none": it completed), and it bound the names w
Finish(c, e, w) ==
    /\ pc' = c + 1
    /\ exc' = [exc EXCEPT ![c] = e]
    /\ defined' = defined \cup w

\* cell c completes and has bound the names w
Completes(c, w) ==
    /\ Finish(c, "none", w)
    /\ UNCHANGED << raised, swallowed >>

\* e is raised at `line` of cell c.  No handler: e leaves the cell, which
\* has bound w by then.  A handler (its body is `pass`): the cell goes on
\* after the try statement and binds w2.
Raise(c, line, e, w, w2) ==
    /\ raised' = raised \cup {[cell |-> c, line |-> line, exc |-> e]}
    /\ swallowed' = swallowed \cup Swallow(c, line, e)
    /\ Finish(c, Leaves(line, e), IF Caught(line) THEN w2 ELSE w)

NameOk(c) == CellReads(c) \subseteq defined

\* a name the cell reads is unbound (no try statement encloses a name read;
\* the line is not modelled)
NameError(c) == Raise(c, 0, "NameError", {}, {})

----------------------------------------------------------------------------
(* Init: a fresh kernel before the first cell.                             *)

\* no function of the notebooks is being applied on its own
FnIdle ==
    /\ rescaleIn = Unbound /\ rescaleOut = Unbound
    /\ hashIn = Unbound /\ hashOut = Unbound
    /\ kernelIn = Unbound /\ kernelOut = Unbound
    /\ chapIn = Unbound /\ chapOut = Unbound

Init ==
    /\ pc = 1
    /\ defined = {}
    /\ exc = [c \in 1 .. NCells |-> "none"]
    /\ raised = {}
    /\ swallowed = {}
    /\ inColab \in BOOLEAN
    /\ fileExists \in BOOLEAN
    /\ clock = 0
    /\ t0 = -1
    /\ shown = NoPlot
    /\ calls = {}
    /\ X_vis = "unbound" /\ y_vis = "unbound"
    /\ X_tsne = "unbound" /\ X_umap = "unbound"
    /\ y_test = Unbound /\ y_proba = Unbound /\ y_proba_test = Unbound
    /\ y_pred = Unbound
    /\ mistakes = [ndim |-> 1, at |-> << >>]
    /\ worst_mistakes = << >>
    /\ trained = "unset"
    /\ cnn = [found |-> "unset", loads |-> 0, compiles |-> 0, fits |-> 0,
             saves |-> 0]
    /\ FnIdle

----------------------------------------------------------------------------
(* Cells that only bind names.                                             *)

RunCell(c) ==
    /\ pc = c
    /\ c \in PlainCells
    /\ IF NameOk(c) THEN Completes(c, CellWrites(c))
                    ELSE NameError(c)
    /\ shown' = NoPlot /\ calls' = {}
    /\ UNCHANGED << envVars, timeVars, provVars, dataVars,
                    cnnVars,
                    fnVars >>

\* cell 3: X_vis = X[:n_vis_samples]; y_vis = y[:n_vis_samples]
SliceMnist ==
    /\ pc = 3
    /\ IF NameOk(3)
         THEN /\ Completes(3, CellWrites(3))
              /\ X_vis' = Mnist /\ y_vis' = Mnist
         ELSE /\ NameError(3)
              /\ UNCHANGED << X_vis, y_vis >>
    /\ shown' = NoPlot /\ calls' = {}
    /\ UNCHANGED << envVars, timeVars, X_tsne, X_umap, dataVars,
                    cnnVars,
                    fnVars >>

----------------------------------------------------------------------------
(* The projection cells: random projection (9), PCA (10), MDS (14),        *)
(* t-SNE (15), UMAP (17).  Each computes an embedding, which takes d time  *)
(* units, and plots it under a title "... (time %.2fs)" % (time() - t0).   *)

ProjectionCells == {9, 10, 14, 15, 17}

\* the cell executes t0 = time() before its computation
AssignsT0(c) == c \in {9, 10, 14, 15}

Projection(c) ==
    /\ pc = c
    /\ c \in ProjectionCells
    /\ IF NameOk(c)
         THEN \E d \in 0 .. (MaxClock - clock) :
                /\ t0' = IF AssignsT0(c) THEN clock ELSE t0
                /\ clock' = clock + d
                /\ shown' = [cell |-> c, reported |-> clock' - t0',
                             took |-> d]
                /\ X_tsne' = IF c = 15 THEN X_vis ELSE X_tsne
                /\ X_umap' = IF c = 17 THEN X_vis ELSE X_umap
                /\ Completes(c, CellWrites(c))
         ELSE /\ NameError(c)
              /\ shown' = NoPlot
              /\ UNCHANGED << timeVars, X_tsne, X_umap >>
    /\ calls' = {}
    /\ UNCHANGED << envVars, X_vis, y_vis, dataVars, cnnVars,
                    fnVars >>

----------------------------------------------------------------------------
(* The cells that call plot_interactive_embedding(X, y, X_img, title).     *)

InteractiveCells == {21, 23, 38, 42}

\* the embedding each call passes as X
EmbeddingArg(c) == IF c = 23 THEN X_umap ELSE X_tsne

\* the titles of the calls of a cell, with the dataset each title names
Titles(c) ==
    CASE c = 21 -> {[text |-> "t-SNE embedding of the digits",
                     names |-> Mnist]}
      [] c = 23 -> {[text |-> "UMAP embedding of the digits",
                     names |-> Mnist]}
      [] c = 38 -> {[text |-> "t-SNE embedding of fashion MNIST from feature space fc2, without training",
                     names |-> Fashion]}
      [] c = 42 -> {[text |-> "t-SNE embedding of fashion MNIST from feature space fc1, _after_ training",
                     names |-> Fashion],
                    [text |-> "t-SNE embedding of fashion MNIST from feature space fc2, _after_ training",
                     names |-> Fashion]}

Interactive(c) ==
    /\ pc = c
    /\ c \in InteractiveCells
    /\ IF NameOk(c)
         THEN /\ calls' = {[X |-> EmbeddingArg(c), y |-> y_vis,
                            X_img |-> X_vis, title |-> t.text,
                            names |-> t.names] : t \in Titles(c)}
              /\ Completes(c, CellWrites(c))
         ELSE /\ calls' = {}
              /\ NameError(c)
    /\ shown' = NoPlot
    /\ UNCHANGED << envVars, timeVars, provVars, dataVars,
                    cnnVars,
                    fnVars >>

----------------------------------------------------------------------------
(* The tensorflow import cell (24):                                        *)
(*     try:                                                                *)
(*         %tensorflow_version 2.x      # only exists in Colab             *)
(*     except Exception:                                                   *)
(*         pass                                                            *)
(*     import tensorflow as tf ...                                         *)
(* Outside Colab the magic does not exist and running it raises.           *)

\* what the %tensorflow_version line raises
TensorflowVersionMagic(colab) == IF colab THEN "none" ELSE "UsageError"

TfImport ==
    /\ pc = 24
    /\ LET e == TensorflowVersionMagic(inColab) IN
         IF e = "none"
           THEN Completes(24, CellWrites(24))
           ELSE Raise(24, 649, e, {}, CellWrites(24))
    /\ shown' = NoPlot /\ calls' = {}
    /\ UNCHANGED << envVars, timeVars, provVars, dataVars, cnnVars,
                    fnVars >>

----------------------------------------------------------------------------
(* Fashion-MNIST.                                                          *)

\* cell 26: (X_train_full, y_train_full), (X_test, y_test) = load_data()
LoadFashion ==
    /\ pc = 26
    /\ IF NameOk(26)
         THEN /\ y_test' \in [Samples -> Classes]
              /\ Completes(26, CellWrites(26))
         ELSE /\ UNCHANGED y_test
              /\ NameError(26)
    /\ shown' = NoPlot /\ calls' = {}
    /\ UNCHANGED << envVars, timeVars, provVars, y_proba,
                    y_proba_test, y_pred, mistakes, worst_mistakes, cnnVars,
                    fnVars >>

\* plot_image with a body that draws and reaches `return ax`
plot_image_implemented(img, reshape_size, cmap, ax, title) ==
    [raises |-> "none", returns |-> ax]

\* def plot_image(img, reshape_size=None, cmap="binary", ax=None, title=None)
plot_image(img, reshape_size, cmap, ax, title) ==
    [raises |-> "NotImplementedError", returns |-> "nothing"]

\* cell 30: plot_image(X_train[0], reshape_size=None, cmap="binary", ax=None,
\*                     title=class_names[y_train[0]])
PlotFirstImage ==
    /\ pc = 30
    /\ IF NameOk(30)
         THEN LET r == plot_image("X_train[0]", "None", "binary", "None",
                                  "class_names[y_train[0]]") IN
                IF r.raises = "none"
                  THEN Completes(30, {})
                  ELSE Raise(30, 726, r.raises, {}, {})
         ELSE NameError(30)
    /\ shown' = NoPlot /\ calls' = {}
    /\ UNCHANGED << envVars, timeVars, provVars, dataVars, cnnVars,
                    fnVars >>

\* cell 31: the 5 x 20 grid; the first plot_image call is at index 0
PlotImageGrid ==
    /\ pc = 31
    /\ IF NameOk(31)
         THEN LET r == plot_image("X_train[index]", "None", "binary", "ax",
                                  "class_names[y_train[index]]") IN
                IF r.raises = "none"
                  THEN Completes(31, CellWrites(31))
                  ELSE Raise(31, 744, r.raises, CellWrites(31),
                             CellWrites(31))
         ELSE NameError(31)
    /\ shown' = NoPlot /\ calls' = {}
    /\ UNCHANGED << envVars, timeVars, provVars, dataVars, cnnVars,
                    fnVars >>

\* cell 32: X_vis = X_test[:n_vis_samples]; y_vis = y_test[:n_vis_samples]
SliceFashion ==
    /\ pc = 32
    /\ IF NameOk(32)
         THEN /\ Completes(32, CellWrites(32))
              /\ X_vis' = Fashion /\ y_vis' = Fashion
         ELSE /\ NameError(32)
              /\ UNCHANGED << X_vis, y_vis >>
    /\ shown' = NoPlot /\ calls' = {}
    /\ UNCHANGED << envVars, timeVars, X_tsne, X_umap, dataVars,
                    cnnVars,
                    fnVars >>

----------------------------------------------------------------------------
(* Predictions of model_fc.  predict is a function of the fitted model, so *)
(* two calls agree on the samples both see.                                *)

ArgMax(proba) == [i \in DOMAIN proba |-> proba[i].cls]

\* cell 46: X_new = X_test[:n_test]; y_proba = model_fc.predict(X_new);
\*          y_pred = model_fc.predict_classes(X_new)
PredictNew ==
    /\ pc = 46
    /\ IF NameOk(46)
         THEN /\ y_proba' \in [0 .. Min(n_test, NTest) - 1 -> Out]
              /\ y_pred' = ArgMax(y_proba')
              /\ Completes(46, CellWrites(46))
         ELSE /\ UNCHANGED << y_proba, y_pred >>
              /\ NameError(46)
    /\ shown' = NoPlot /\ calls' = {}
    /\ UNCHANGED << envVars, timeVars, provVars, y_test,
                    y_proba_test, mistakes, worst_mistakes, cnnVars,
                    fnVars >>

\* cell 48: y_proba_test = model_fc.predict(X_test);
\*          y_pred = y_proba_test.argmax(axis=1)
PredictTest ==
    /\ pc = 48
    /\ IF NameOk(48)
         THEN /\ y_proba_test' \in
                   {f \in [Samples -> Out] :
                      \A i \in DOMAIN y_proba : f[i] = y_proba[i]}
              /\ y_pred' = ArgMax(y_proba_test')
              /\ Completes(48, CellWrites(48))
         ELSE /\ UNCHANGED << y_proba_test, y_pred >>
              /\ NameError(48)
    /\ shown' = NoPlot /\ calls' = {}
    /\ UNCHANGED << envVars, timeVars, provVars, y_test, y_proba,
                    mistakes, worst_mistakes, cnnVars,
                    fnVars >>

----------------------------------------------------------------------------
(* "Find worst mistakes" (cell 51).  Arrays are indexed from 0; a          *)
(* sequence s holds the array element k at s[k + 1].                       *)

RECURSIVE Ascending(_)
\* the elements of a finite set of integers in ascending order
Ascending(S) ==
    IF S = {} THEN << >>
    ELSE LET m == CHOOSE x \in S : \A z \in S : x <= z
         IN << m >> \o Ascending(S \ {m})

\* np.argwhere(y_pred != y_test): shape (k, 1), indices ascending
ArgWhereNe(a, b) == Ascending({i \in DOMAIN a : a[i] # b[i]})

\* np.squeeze drops every axis of length 1: shape (1, 1) becomes (), shape
\* (k, 1) becomes (k,)
Squeeze(at) == [ndim |-> IF Len(at) = 1 THEN 0 ELSE 1, at |-> at]

\* y_proba_test[mistakes, :].max(axis=1): element k is the max of row
\* mistakes[k]
MaxOfRows(proba, at) == [k \in 1 .. Len(at) |-> proba[at[k]].p]

\* np.argsort(-v): the positions 0 .. len(v)-1 by ascending -v; the order
\* among equal elements is not specified
ArgSortsDescending(v) ==
    LET n == Len(v) IN
    {s \in [1 .. n -> 0 .. n - 1] :
        /\ \A a, b \in 1 .. n : a # b => s[a] # s[b]
        /\ \A a, b \in 1 .. n : a < b => -v[s[a] + 1] <= -v[s[b] + 1]}

\* s[:n]
Take(s, n) == SubSeq(s, 1, Min(n, Len(s)))

FindWorstMistakes ==
    /\ pc = 51
    /\ IF NameOk(51)
         THEN LET m == Squeeze(ArgWhereNe(y_pred, y_test)) IN
                /\ y_proba_test' = y_proba_test
                /\ mistakes' = m
                /\ IF m.ndim = 0
                     \* y_proba_test[mistakes, :] has one axis: max(axis=1)
                     \* raises numpy.AxisError
                     THEN /\ Raise(51, 1125, "AxisError",
                                   {"y_proba_test", "mistakes"},
                                   {"y_proba_test", "mistakes"})
                          /\ UNCHANGED worst_mistakes
                     ELSE /\ worst_mistakes' \in
                               {Take(s, n_test) : s \in ArgSortsDescending(
                                    MaxOfRows(y_proba_test, m.at))}
                          /\ Completes(51, CellWrites(51))
         ELSE /\ NameError(51)
              /\ UNCHANGED << y_proba_test, mistakes, worst_mistakes >>
    /\ shown' = NoPlot /\ calls' = {}
    /\ UNCHANGED << envVars, timeVars, provVars, y_test, y_proba, y_pred,
                    cnnVars,
                    fnVars >>

\* cell 52: y_pred[mistakes[:10]], y_test[mistakes[:10]]; slicing an array
\* of no axis raises IndexError
ShowMistakes ==
    /\ pc = 52
    /\ IF NameOk(52)
         THEN IF mistakes.ndim = 0
                THEN Raise(52, 1136, "IndexError", {}, {})
                ELSE Completes(52, {})
         ELSE NameError(52)
    /\ shown' = NoPlot /\ calls' = {}
    /\ UNCHANGED << envVars, timeVars, provVars, dataVars, cnnVars,
                    fnVars >>

----------------------------------------------------------------------------
(* The CNN cells.                                                          *)

\* cell 57: load convnet.h5 if it exists, else build the model
BuildCnn ==
    /\ pc = 57
    /\ IF NameOk(57)
         THEN IF fileExists
                THEN /\ trained' = "True"
                     /\ cnn' = [cnn EXCEPT !.found = "True",
                                            !.loads = @ + 1]
                     /\ Completes(57, CellWrites(57))
                ELSE /\ trained' = "False"
                     /\ cnn' = [cnn EXCEPT !.found = "False"]
                     /\ Completes(57, CellWrites(57) \cup
                          {"DefaultConv2D", "feature_extractor",
                           "classifier"})
         ELSE /\ NameError(57)
              /\ UNCHANGED cnnVars
    /\ shown' = NoPlot /\ calls' = {}
    /\ UNCHANGED << envVars, timeVars, provVars, dataVars,
                    fnVars >>

\* the names the `if not trained:` block of cell 58 reads
TrainReads == {"X_train_c", "y_train", "X_valid_c", "y_valid",
               "convmodel_file"}

\* y_pred = model.predict(X_new): rows of class probabilities of the CNN
CnnPredictions == << "model.predict(X_new)" >>

\* a cell 58 that trains whatever `trained` says
AlwaysTrains == TRUE

\* `if not trained:`
NotTrained == trained = "False"

\* a model.save that writes no file
ModelSaveSkipped(exists) == exists

\* model.save(convmodel_file): whether convnet.h5 exists after the call
ModelSave(exists) == TRUE

\* cell 58: compile, fit and save unless trained; evaluate and predict
TrainCnn ==
    /\ pc = 58
    /\ IF NameOk(58) /\ (NotTrained => TrainReads \subseteq defined)
         THEN /\ IF NotTrained
                   THEN /\ cnn' = [cnn EXCEPT !.compiles = @ + 1,
                                              !.fits = @ + 1,
                                              !.saves = @ + 1]
                        /\ fileExists' = ModelSave(fileExists)
                        /\ Completes(58,
                                     CellWrites(58) \cup {"history"})
                   ELSE /\ UNCHANGED << cnn, fileExists >>
                        /\ Completes(58, CellWrites(58))
              /\ y_pred' = CnnPredictions
         ELSE /\ NameError(58)
              /\ UNCHANGED << cnn, fileExists, y_pred >>
    /\ shown' = NoPlot /\ calls' = {}
    /\ UNCHANGED << inColab, timeVars, provVars, y_test, y_proba,
                    y_proba_test, mistakes, worst_mistakes, trained,
                    fnVars >>

----------------------------------------------------------------------------
Next ==
    \/ \E c \in PlainCells : RunCell(c)
    \/ SliceMnist
    \/ \E c \in ProjectionCells : Projection(c)
    \/ \E c \in InteractiveCells : Interactive(c)
    \/ TfImport
    \/ LoadFashion
    \/ PlotFirstImage
    \/ PlotImageGrid
    \/ SliceFashion
    \/ PredictNew
    \/ PredictTest
    \/ FindWorstMistakes
    \/ ShowMistakes
    \/ BuildCnn
    \/ TrainCnn

Spec == Init /\ [][Next]_vars

----------------------------------------------------------------------------
(* Repeated runs of the CNN cells: once cell 58 has run, cells 57 and 58   *)
(* may be run again, in the same kernel and with the same files on disk.   *)

\* the runs of the pair of cells so far: each one loaded or fitted
CnnRuns == cnn.loads + cnn.fits

RerunCnn ==
    /\ pc = 59
    /\ CnnRuns < MaxRuns
    /\ pc' = 57
    /\ shown' = NoPlot /\ calls' = {}
    /\ UNCHANGED << defined, exc, raised, swallowed, envVars, timeVars,
                    provVars, dataVars, cnnVars, fnVars >>

NextRerun ==
    \/ Next
    \/ RerunCnn

SpecRerun == Init /\ [][NextRerun]_vars

----------------------------------------------------------------------------
(* The functions checked on their own.  While one is applied, no notebook  *)
(* runs.                                                                   *)

NoRun ==
    /\ pc = NCells + 1
    /\ defined = {}
    /\ exc = [c \in 1 .. NCells |-> "none"]
    /\ raised = {}
    /\ swallowed = {}
    /\ inColab = FALSE
    /\ fileExists = FALSE
    /\ clock = 0
    /\ t0 = -1
    /\ shown = NoPlot
    /\ calls = {}
    /\ X_vis = "unbound" /\ y_vis = "unbound"
    /\ X_tsne = "unbound" /\ X_umap = "unbound"
    /\ y_test = Unbound /\ y_proba = Unbound /\ y_proba_test = Unbound
    /\ y_pred = Unbound
    /\ mistakes = [ndim |-> 1, at |-> << >>]
    /\ worst_mistakes = << >>
    /\ trained = "unset"
    /\ cnn = [found |-> "unset", loads |-> 0, compiles |-> 0, fits |-> 0,
             saves |-> 0]

RECURSIVE SumOver(_, _)
\* the sum of f[j] over the j of the finite set S
SumOver(S, f) ==
    IF S = {} THEN 0
    ELSE LET j == CHOOSE k \in S : TRUE
         IN f[j] + SumOver(S \ {j}, f)

----------------------------------------------------------------------------
(* plot_digits_embedding(X2d, y): the rescaling of its first two lines.    *)
(* Coordinates are integers here and a quotient is kept as num / den.      *)

\* a / b of two floats: 0 / 0 is nan, a / 0 is +-inf (numpy warns, no raise)
TrueDivide(a, b) ==
    IF b # 0 THEN [kind |-> "finite", num |-> a, den |-> b]
    ELSE IF a = 0 THEN [kind |-> "nan", num |-> 0, den |-> 0]
    ELSE [kind |-> "inf", num |-> a, den |-> 0]

\* np.min(X2d, 0)[j], np.max(X2d, 0)[j]
ColMin(X2d, j) ==
    CHOOSE v \in {X2d[i][j] : i \in DOMAIN X2d} :
        \A i \in DOMAIN X2d : v <= X2d[i][j]
ColMax(X2d, j) ==
    CHOOSE v \in {X2d[i][j] : i \in DOMAIN X2d} :
        \A i \in DOMAIN X2d : v >= X2d[i][j]

\* x_min, x_max = np.min(X2d, 0), np.max(X2d, 0)
\* X = (X2d - x_min) / (x_max - x_min)
Rescale(X2d) ==
    [i \in DOMAIN X2d |->
        [j \in 1 .. 2 |-> TrueDivide(X2d[i][j] - ColMin(X2d, j),
                                     ColMax(X2d, j) - ColMin(X2d, j))]]

Coords == -MaxCoord .. MaxCoord

InitRescale ==
    /\ NoRun
    /\ rescaleIn \in UNION {[1 .. n -> [1 .. 2 -> Coords]] : n \in 0 .. MaxPts}
    /\ rescaleOut = Unbound
    /\ hashIn = Unbound /\ hashOut = Unbound
    /\ kernelIn = Unbound /\ kernelOut = Unbound
    /\ chapIn = Unbound /\ chapOut = Unbound

\* np.min of an array of no rows raises ValueError
PlotDigitsEmbedding ==
    /\ rescaleOut = Unbound
    /\ rescaleOut' =
         IF Len(rescaleIn) = 0
           THEN [raises |-> "ValueError", X |-> << >>]
           ELSE [raises |-> "none", X |-> Rescale(rescaleIn)]
    /\ UNCHANGED << nbVars, rescaleIn, hashIn, hashOut, kernelIn, kernelOut,
                    chapIn, chapOut >>

NextRescale == PlotDigitsEmbedding

SpecRescale == InitRescale /\ [][NextRescale]_vars

\* the float is in [0, 1]
InUnit(v) == v.kind = "finite" /\ v.den > 0 /\ 0 <= v.num /\ v.num <= v.den

\* C3 as stated: every plotted coordinate lies in [0, 1], the column minimum
\* is plotted at 0 and the column maximum at 1, also when all points share
\* the same value in a column.
C3_RescaledToUnit ==
    (rescaleOut # Unbound /\ rescaleOut.raises = "none") =>
        \A i \in DOMAIN rescaleIn : \A j \in 1 .. 2 :
            LET v == rescaleOut.X[i][j] IN
            /\ InUnit(v)
            /\ rescaleIn[i][j] = ColMin(rescaleIn, j) => v.num = 0
            /\ rescaleIn[i][j] = ColMax(rescaleIn, j) => v.num = v.den

----------------------------------------------------------------------------
(* HashingTrick.ipynb, "Weinberger et al's definition":                    *)
(*     phi_i(x) = sum over {j : h(j) = i} of xi(j) x_j                     *)
(* with h : N -> {1..m} and xi : N -> {-1, +1}.                            *)

\* a feature lands in the bucket after h(j)
phi_shifted(x, h, xi, m) ==
    [i \in 1 .. m |->
        SumOver({j \in DOMAIN x : (h[j] % m) + 1 = i},
                [j \in DOMAIN x |-> xi[j] * x[j]])]

\* the sign hash is left out
phi_unsigned(x, h, xi, m) ==
    [i \in 1 .. m |->
        SumOver({j \in DOMAIN x : h[j] = i}, [j \in DOMAIN x |-> x[j]])]

phi(x, h, xi, m) ==
    [i \in 1 .. m |->
        SumOver({j \in DOMAIN x : h[j] = i},
                [j \in DOMAIN x |-> xi[j] * x[j]])]

\* <u, v>
Dot(u, v) == SumOver(DOMAIN u, [i \in DOMAIN u |-> u[i] * v[i]])

Signs == {-1, 1}

InitHash ==
    /\ NoRun
    /\ hashIn \in [x : [1 .. Dim -> 0 .. MaxVal],
                   xp : [1 .. Dim -> 0 .. MaxVal],
                   h : [1 .. Dim -> 1 .. NBuckets],
                   xi : [1 .. Dim -> Signs]]
    /\ hashOut = Unbound
    /\ rescaleIn = Unbound /\ rescaleOut = Unbound
    /\ kernelIn = Unbound /\ kernelOut = Unbound
    /\ chapIn = Unbound /\ chapOut = Unbound

\* phi of x, of x' and of x + x', under the same h and xi
HashFeatures ==
    /\ hashOut = Unbound
    /\ LET a == hashIn IN
         hashOut' =
           [x |-> phi(a.x, a.h, a.xi, NBuckets),
            xp |-> phi(a.xp, a.h, a.xi, NBuckets),
            sum |-> phi([j \in 1 .. Dim |-> a.x[j] + a.xp[j]], a.h, a.xi,
                        NBuckets),
            only |-> [j \in 1 .. Dim |->
                        phi([k \in 1 .. Dim |-> IF k = j THEN a.x[k] ELSE 0],
                            a.h, a.xi, NBuckets)]]
    /\ UNCHANGED << nbVars, rescaleIn, rescaleOut, hashIn, kernelIn,
                    kernelOut, chapIn, chapOut >>

NextHash == HashFeatures

SpecHash == InitHash /\ [][NextHash]_vars

\* C4: feature j alone is accumulated into bucket h(j) only, with the sign
\* xi(j); the phi_i(x) summed over the m buckets are the sum of xi(j) x_j;
\* and phi(x + x') = phi(x) + phi(x').
C4_WeinbergerMap ==
    hashOut # Unbound =>
        LET a == hashIn IN
        /\ \A j \in 1 .. Dim : \A i \in 1 .. NBuckets :
             hashOut.only[j][i] = IF i = a.h[j] THEN a.xi[j] * a.x[j] ELSE 0
        /\ SumOver(1 .. NBuckets, hashOut.x)
             = SumOver(1 .. Dim, [j \in 1 .. Dim |-> a.xi[j] * a.x[j]])
        /\ \A i \in 1 .. NBuckets :
             hashOut.sum[i] = hashOut.x[i] + hashOut.xp[i]

\* two non-zero features with opposite signs were hashed to the same bucket
C4_Witness ==
    /\ hashOut # Unbound
    /\ \E j, k \in 1 .. Dim :
         /\ j # k /\ hashIn.h[j] = hashIn.h[k]
         /\ hashIn.xi[j] # hashIn.xi[k]
         /\ hashIn.x[j] # 0 /\ hashIn.x[k] # 0

----------------------------------------------------------------------------
(* HashingTrick.ipynb, "Properties": with the sign, the hash kernel        *)
(* <phi(x), phi(x')> is unbiased.                                          *)

InitKernel ==
    /\ NoRun
    /\ kernelIn \in [x : [1 .. KDim -> 0 .. KMaxVal],
                     xp : [1 .. KDim -> 0 .. KMaxVal]]
    /\ kernelOut = Unbound
    /\ rescaleIn = Unbound /\ rescaleOut = Unbound
    /\ hashIn = Unbound /\ hashOut = Unbound
    /\ chapIn = Unbound /\ chapOut = Unbound

\* every bucket hash h and every sign hash xi
BucketHashes == [1 .. KDim -> 1 .. KBuckets]
SignHashes == [1 .. KDim -> Signs]

\* the hash kernel of x and x' under each (h, xi), summed over all of them
HashKernel ==
    /\ kernelOut = Unbound
    /\ kernelOut' =
         [sum |-> SumOver(BucketHashes,
                    [h \in BucketHashes |->
                        SumOver(SignHashes,
                          [xi \in SignHashes |->
                              Dot(phi(kernelIn.x, h, xi, KBuckets),
                                  phi(kernelIn.xp, h, xi, KBuckets))])]),
          count |-> Cardinality(BucketHashes) * Cardinality(SignHashes)]
    /\ UNCHANGED << nbVars, rescaleIn, rescaleOut, hashIn, hashOut, kernelIn,
                    chapIn, chapOut >>

NextKernel == HashKernel

SpecKernel == InitKernel /\ [][NextKernel]_vars

\* C5: the average of <phi(x), phi(x')> over all h and xi, taken uniformly,
\* is <x, x'> (the sum is the number of pairs times <x, x'>).
C5_KernelUnbiased ==
    kernelOut # Unbound =>
        kernelOut.sum = kernelOut.count * Dot(kernelIn.x, kernelIn.xp)

\* x and x' have non-zero entries at different indices, which collide under
\* some h, and a non-zero scalar product
C5_Witness ==
    /\ kernelOut # Unbound
    /\ Dot(kernelIn.x, kernelIn.xp) # 0
    /\ \E j, k \in 1 .. KDim :
         j # k /\ kernelIn.x[j] # 0 /\ kernelIn.xp[k] # 0

----------------------------------------------------------------------------
(* HashingTrick.ipynb, "Chapelle et al's definition": F categorical        *)
(* features, feature f taking c_f values, d = sum of the c_f, and          *)
(*     phi_i(x) = sum over f of [h_f(x) mod d = i].                        *)
(* The hashed space is R^m ("Key idea"); its buckets are 0 .. m-1 here,    *)
(* the values a modulus takes.                                             *)

\* d = sum over f of c_f
NaiveDim(c) == SumOver(DOMAIN c, c)

\* phi_i(x); hv[f] is h_f(x)
ChapellePhi(hv, d, m) ==
    [i \in 0 .. m - 1 |-> Cardinality({f \in DOMAIN hv : hv[f] % d = i})]

InitChapelle ==
    /\ NoRun
    /\ \E F \in 1 .. MaxFeat :
         \E c \in [1 .. F -> 1 .. MaxCats] :
           chapIn \in [c : {c}, hv : [1 .. F -> 0 .. MaxHash],
                       m : 1 .. NaiveDim(c)]
    /\ chapOut = Unbound
    /\ rescaleIn = Unbound /\ rescaleOut = Unbound
    /\ hashIn = Unbound /\ hashOut = Unbound
    /\ kernelIn = Unbound /\ kernelOut = Unbound

HashCategories ==
    /\ chapOut = Unbound
    /\ chapOut' = ChapellePhi(chapIn.hv, NaiveDim(chapIn.c), chapIn.m)
    /\ UNCHANGED << nbVars, rescaleIn, rescaleOut, hashIn, hashOut, kernelIn,
                    kernelOut, chapIn >>

NextChapelle == HashCategories

SpecChapelle == InitChapelle /\ [][NextChapelle]_vars

\* C6 as stated: every phi_i(x) is a non-negative integer and the phi_i(x)
\* summed over the m buckets of the hashed space are F.
C6_ChapelleCountsAllFeatures ==
    chapOut # Unbound =>
        /\ \A i \in DOMAIN chapOut : chapOut[i] \in Nat
        /\ SumOver(DOMAIN chapOut, chapOut) = Len(chapIn.c)

----------------------------------------------------------------------------
(* Claims about the run of 03_ML_and_dataviz.ipynb.                        *)

NotImplemented == "NotImplementedError"

PlotImageArgs ==
    [img : {"X_train[0]", "X_train[index]"},
     reshape_size : {"None", "(28, 28)"},
     cmap : {"binary", "gray"},
     ax : {"None", "ax"},
     title : {"None", "class_names[y_train[0]]"}]

\* C1: whatever its arguments, plot_image raises NotImplementedError and
\* returns no axes; in the run, no cell before the first one that calls it
\* (cell 30) raises that exception, and cell 30 stops with it.
C1_PlotImageNotImplemented ==
    /\ \A a \in PlotImageArgs :
         LET r == plot_image(a.img, a.reshape_size, a.cmap, a.ax, a.title)
         IN r.raises = NotImplemented /\ r.returns = "nothing"
    /\ \A c \in 1 .. 29 : exc[c] # NotImplemented
    /\ pc > 30 => exc[30] = NotImplemented

\* cell 30 has run and NotImplementedError left it
C1_Witness == pc = 31 /\ exc[30] = NotImplemented

\* C2 as stated: nothing catches and suppresses an exception, so every
\* exception raised in a cell leaves that cell.
C2_NoExceptionSuppressed ==
    /\ swallowed = {}
    /\ \A r \in raised : exc[r.cell] = r.exc

\* C2, amended: the only exception that is caught and suppressed is the one
\* the %tensorflow_version line (line 649, cell 24) raises; every other
\* exception raised in a cell leaves that cell.
C2_OnlyMagicSuppressed ==
    /\ \A r \in swallowed : r.cell = 24 /\ r.line = 649
    /\ \A r \in raised : r \in swallowed \/ exc[r.cell] = r.exc

\* outside Colab the magic's exception was suppressed, and a later
\* exception (plot_image's) left its cell
C2_Witness ==
    /\ \E r \in swallowed : r.cell = 24
    /\ \E r \in raised : r.cell = 30 /\ exc[30] = r.exc

\* C7 as stated: the time in the title of every projection plot is the time
\* elapsed since a t0 taken in the same cell right before the computation,
\* that is, the time the cell's own computation took.
C7_TitleTimesOwnComputation ==
    shown.cell # 0 => shown.reported = shown.took

\* C8 as stated: at every call of plot_interactive_embedding, X, y and X_img
\* describe the same samples, those of the dataset the title names.
C8_InteractiveArgsSameSamples ==
    \A k \in calls : k.X = k.y /\ k.y = k.X_img /\ k.X = k.names

\* C9 as stated: when cell 53 indexes the test set with worst_mistakes, every
\* index is a misclassified sample, and the indices are the (at most n_test)
\* misclassified samples of highest predicted maximum probability.
C9_WorstMistakesAreMistakes ==
    (pc = 54 /\ exc[51] = "none" /\ exc[53] = "none") =>
        LET W == {worst_mistakes[k] : k \in 1 .. Len(worst_mistakes)}
            M == {i \in Samples : y_pred[i] # y_test[i]}
        IN /\ W \subseteq M
           /\ Cardinality(W) = Min(n_test, Cardinality(M))
           /\ \A i \in W : \A j \in M \ W :
                y_proba_test[i].p >= y_proba_test[j].p

\* C10 as stated: no cell of the run fails with an undefined name.
C10_NoUndefinedName == \A c \in 1 .. NCells : exc[c] # "NameError"

----------------------------------------------------------------------------
(* The CNN cells.                                                          *)

\* C11: in the run of the cells in file order, cell 58 compiles, fits and
\* saves the model if and only if convnet.h5 did not exist when cell 57
\* tested for it; when the file exists, cell 57 loads the model and sets
\* trained to True, and nothing is compiled, fitted or written.
C11_TrainsIffNoFile ==
    /\ pc <= 57 =>
         cnn.loads = 0 /\ cnn.compiles = 0 /\ cnn.fits = 0 /\ cnn.saves = 0
    /\ (pc = 58 /\ exc[57] = "none") =>
         /\ cnn.found = "True" <=> fileExists
         /\ cnn.compiles = 0 /\ cnn.fits = 0 /\ cnn.saves = 0
    /\ (pc >= 58 /\ exc[57] = "none" /\ cnn.found = "True") =>
         /\ cnn.loads = 1 /\ trained = "True"
         /\ cnn.compiles = 0 /\ cnn.fits = 0 /\ cnn.saves = 0
    /\ (pc >= 59 /\ exc[57] = "none" /\ exc[58] = "none") =>
         /\ cnn.fits = 1 <=> cnn.found = "False"
         /\ cnn.fits \in {0, 1}
         /\ cnn.compiles = cnn.fits /\ cnn.saves = cnn.fits
         /\ cnn.found = "False" => cnn.loads = 0 /\ trained = "False"

\* C11 witness: both cells have run with convnet.h5 on disk; the model was
\* loaded.
C11_Witness ==
    /\ pc = 59 /\ exc[57] = "none" /\ exc[58] = "none"
    /\ cnn.found = "True" /\ cnn.loads = 1 /\ "model" \in defined

\* C12: whenever cells 57 and 58 have run to completion convnet.h5 exists,
\* and over repeated runs of the two cells the model is fitted at most once,
\* in a run that found no file and before which nothing was loaded or fitted.
C12_TrainedAtMostOnce ==
    /\ []((pc = 59 /\ exc[57] = "none" /\ exc[58] = "none") => fileExists)
    /\ [](cnn.fits <= 1)
    /\ [][cnn'.fits # cnn.fits =>
            /\ cnn.found = "False" /\ ~fileExists
            /\ cnn.loads = 0 /\ cnn.fits = 0]_vars

\* C12 witness: the two cells have run twice; the first run fitted and saved
\* the model, the second loaded it.
C12_Witness ==
    /\ pc = 59 /\ exc[57] = "none" /\ exc[58] = "none"
    /\ cnn.fits = 1 /\ cnn.saves = 1 /\ cnn.loads = 1

====
